---- MODULE Spec2Model ----
(***************************************************************************)
(* CSV Merger (src/src/App.tsx): the normalize / merge / dedupe / chunk    *)
(* pipeline of processFiles, with its FileReader callbacks and the React   *)
(* state it publishes.                                                     *)
(*                                                                         *)
(* A JavaScript string is a sequence of one-character strings, so that     *)
(* split, trim, startsWith and substring are computed, not assumed.        *)
(* An optional value (null | x) is <<>> | <<x>>.                           *)
(*                                                                         *)
(* inputFiles is the files property of the file input (event.target.files  *)
(* of the last change event), invs the processFiles invocations made so    *)
(* far, alerts the alerts raised so far (run 0: by no invocation that      *)
(* started reads), runs the number of clicks on "Process Files".           *)
(***************************************************************************)
EXTENDS Integers, Sequences, FiniteSets, TLC

VARIABLES inputFiles, selectedFiles, stats, processedChunks, invs, alerts, runs

vars == <<inputFiles, selectedFiles, stats, processedChunks, invs, alerts, runs>>

(***************************************************************************)
(* Bounds of the model.                                                    *)
(***************************************************************************)
\* processFiles invocations (clicks on "Process Files") in one behaviour.
MaxRuns == 2
\* Files in one selection of the picker.
MaxFiles == 2

(***************************************************************************)
(* Values.                                                                 *)
(***************************************************************************)
Null == <<>>
Some(x) == <<x>>

\* What String.prototype.trim strips (white space and line terminators).
WhiteSpace == {" ", "\t", "\n", "\r", "\f"}

NoFilesMsg == "Please select at least one CSV file."
ErrorMsg == "Error processing files. Please try again."

Prefix971 == <<"9", "7", "1">>

Min(a, b) == IF a < b THEN a ELSE b

(***************************************************************************)
(* String functions used by reader.onload.                                 *)
(***************************************************************************)
\* csvData.split('\n'): the maximal newline-free pieces, in order; the empty
\* string splits into one empty piece.
RECURSIVE SplitLoop(_, _, _, _)
SplitLoop(s, i, rows, cur) ==
  IF i > Len(s) THEN Append(rows, cur)
  ELSE IF s[i] = "\n" THEN SplitLoop(s, i + 1, Append(rows, cur), <<>>)
  ELSE SplitLoop(s, i + 1, rows, Append(cur, s[i]))

Split(s) == SplitLoop(s, 1, <<>>, <<>>)

\* row.trim()
Trim(s) ==
  LET keep == {i \in 1..Len(s) : s[i] \notin WhiteSpace}
  IN  IF keep = {} THEN <<>>
      ELSE LET lo == CHOOSE i \in keep : \A j \in keep : i <= j
               hi == CHOOSE i \in keep : \A j \in keep : j <= i
           IN  SubSeq(s, lo, hi)

NonBlank(row) == Trim(row) # <<>>

\* csvData.split('\n').filter((row) => row.trim() !== '')
FilterRows(csvData) == SelectSeq(Split(csvData), NonBlank)

RECURSIVE StripZeros(_)
StripZeros(value) ==
  IF Len(value) > 0 /\ value[1] = "0" THEN StripZeros(Tail(value)) ELSE value

\* NormalizeRow stripping every leading '0' (value.replace(/^0+/, '')).
NormalizeRowAllZeros(row) == Prefix971 \o StripZeros(Trim(row))

\* The body of the for loop up to mergedData.add: trim, strip one leading
\* '0', prepend '971'.
NormalizeRow(row) ==
  LET value == Trim(row)
  IN  IF Len(value) > 0 /\ value[1] = "0"
      THEN Prefix971 \o SubSeq(value, 2, Len(value))
      ELSE Prefix971 \o value

\* SetAdd on an array instead of a Set (mergedData.push(value)).
SetAddPush(merged, value) == Append(merged, value)

\* mergedData.add(value) on a Set, which iterates in insertion order.
SetAdd(merged, value) ==
  IF \E k \in 1..Len(merged) : merged[k] = value
  THEN merged
  ELSE Append(merged, value)

\* for (let i = 1; i < rows.length; i++) { ... mergedData.add(value) }
\* with rows 1-based here: the loop starts at the second row.
RECURSIVE AddRows(_, _, _)
AddRows(merged, rows, i) ==
  IF i > Len(rows) THEN merged
  ELSE AddRows(SetAdd(merged, NormalizeRow(rows[i])), rows, i + 1)

\* totalRecords += rows.length - 1
CountRows(rows) == Len(rows) - 1

(***************************************************************************)
(* Chunking.                                                               *)
(***************************************************************************)
chunkSize == 9000

\* Sum of the lengths of data[lo..hi].
RECURSIVE SumLen(_, _, _)
SumLen(data, lo, hi) ==
  IF lo > hi THEN 0
  ELSE IF lo = hi THEN Len(data[lo])
  ELSE LET mid == (lo + hi) \div 2
       IN  SumLen(data, lo, mid) + SumLen(data, mid + 1, hi)

\* new Blob([chunk.join('\n')]).size; every character of the model is ASCII,
\* one byte each.
BlobSize(chunk) ==
  IF Len(chunk) = 0 THEN 0
  ELSE SumLen(chunk, 1, Len(chunk)) + (Len(chunk) - 1)

\* ChunkLoop with the loop test i <= uniqueData.length.
RECURSIVE ChunkLoopInclusive(_, _, _)
ChunkLoopInclusive(uniqueData, i, chunks) ==
  IF i <= Len(uniqueData)
  THEN LET chunk == SubSeq(uniqueData, i + 1, Min(i + chunkSize, Len(uniqueData)))
       IN  ChunkLoopInclusive(uniqueData, i + chunkSize,
                              Append(chunks, [data |-> chunk, size |-> BlobSize(chunk)]))
  ELSE chunks

\* for (let i = 0; i < uniqueData.length; i += chunkSize) chunks.push(...)
RECURSIVE ChunkLoop(_, _, _)
ChunkLoop(uniqueData, i, chunks) ==
  IF i < Len(uniqueData)
  THEN LET chunk == SubSeq(uniqueData, i + 1, Min(i + chunkSize, Len(uniqueData)))
       IN  ChunkLoop(uniqueData, i + chunkSize,
                     Append(chunks, [data |-> chunk, size |-> BlobSize(chunk)]))
  ELSE chunks

MakeChunks(uniqueData) == ChunkLoop(uniqueData, 0, <<>>)

(***************************************************************************)
(* Files of the concurrent specification: two files that share a record.   *)
(***************************************************************************)
FileA == <<"h", "\n", "0", "5">>
FileB == <<"h", "\n", "7", "\n", "5">>
FileUniverse == {FileA, FileB}

Injective(s) == \A i, j \in 1..Len(s) : s[i] = s[j] => i = j

\* What the picker can hand to handleFileChange: any list of distinct files,
\* the empty list (the dialog was cancelled) included.
PickerLists ==
  UNION {{s \in [1..n -> FileUniverse] : Injective(s)} : n \in 0..MaxFiles}

(***************************************************************************)
(* State.                                                                  *)
(***************************************************************************)
Init ==
  /\ inputFiles = <<>>
  /\ selectedFiles = Null
  /\ stats = Null
  /\ processedChunks = <<>>
  /\ invs = <<>>
  /\ alerts = <<>>
  /\ runs = 0

\* A processFiles invocation: the FileList its closure captured, the state of
\* each FileReader, its locals mergedData and totalRecords, and the state of
\* the Promise.all promise it awaits.
NewInvocation(files) ==
  [files        |-> files,
   reads        |-> [f \in 1..Len(files) |-> "pending"],
   mergedData   |-> <<>>,
   totalRecords |-> 0,
   settled      |-> "pending"]

HasFailed(inv) == \E f \in 1..Len(inv.reads) : inv.reads[f] = "failed"
AllLoaded(inv) == \A f \in 1..Len(inv.reads) : inv.reads[f] = "loaded"
HasPending(inv) == \E f \in 1..Len(inv.reads) : inv.reads[f] = "pending"

(***************************************************************************)
(* Operations.                                                             *)
(***************************************************************************)
\* HandleFileChange without the test of files.length.
HandleFileChangeUnguarded(files) ==
  /\ inputFiles' = files
  /\ selectedFiles' = Some(files)
  /\ UNCHANGED <<stats, processedChunks, invs, alerts, runs>>

\* handleFileChange
HandleFileChange(files) ==
  /\ inputFiles' = files
  /\ IF Len(files) > 0
     THEN selectedFiles' = Some(files)
     ELSE UNCHANGED selectedFiles
  /\ UNCHANGED <<stats, processedChunks, invs, alerts, runs>>

\* What the try block publishes: setStats and setProcessedChunks.
Publish(newInvs, i) ==
  LET inv == newInvs[i]
      uniqueData == inv.mergedData
      duplicatesRemoved == inv.totalRecords - Len(uniqueData)
  IN  /\ invs' = [newInvs EXCEPT ![i].settled = "resolved"]
      /\ stats' = Some([totalFiles        |-> Len(inv.files),
                        totalRecords      |-> inv.totalRecords,
                        duplicatesRemoved |-> duplicatesRemoved])
      /\ processedChunks' = MakeChunks(uniqueData)
      /\ UNCHANGED alerts

\* AwaitAll whose catch block also clears the displayed results.
AwaitAllClearing(newInvs, i) ==
  LET inv == newInvs[i]
  IN  IF inv.settled # "pending"
      THEN /\ invs' = newInvs
           /\ UNCHANGED <<stats, processedChunks, alerts>>
      ELSE IF HasFailed(inv)
      THEN /\ invs' = [newInvs EXCEPT ![i].settled = "rejected"]
           /\ alerts' = Append(alerts, [run |-> i, msg |-> ErrorMsg])
           /\ stats' = Null
           /\ processedChunks' = <<>>
      ELSE IF AllLoaded(inv)
      THEN Publish(newInvs, i)
      ELSE /\ invs' = newInvs
           /\ UNCHANGED <<stats, processedChunks, alerts>>

\* AwaitAll awaiting Promise.race: the first read to load resolves it.
AwaitAllRace(newInvs, i) ==
  LET inv == newInvs[i]
  IN  IF inv.settled # "pending"
      THEN /\ invs' = newInvs
           /\ UNCHANGED <<stats, processedChunks, alerts>>
      ELSE IF HasFailed(inv)
      THEN /\ invs' = [newInvs EXCEPT ![i].settled = "rejected"]
           /\ alerts' = Append(alerts, [run |-> i, msg |-> ErrorMsg])
           /\ UNCHANGED <<stats, processedChunks>>
      ELSE IF \E f \in 1..Len(inv.reads) : inv.reads[f] = "loaded"
      THEN Publish(newInvs, i)
      ELSE /\ invs' = newInvs
           /\ UNCHANGED <<stats, processedChunks, alerts>>

\* await Promise.all(readFiles) and what follows it, run in the microtasks of
\* the task that settled the promise: invocation i of newInvs has just had a
\* read settle (or has just been started).
AwaitAll(newInvs, i) ==
  LET inv == newInvs[i]
  IN  IF inv.settled # "pending"
      THEN /\ invs' = newInvs
           /\ UNCHANGED <<stats, processedChunks, alerts>>
      ELSE IF HasFailed(inv)
      THEN /\ invs' = [newInvs EXCEPT ![i].settled = "rejected"]
           /\ alerts' = Append(alerts, [run |-> i, msg |-> ErrorMsg])
           /\ UNCHANGED <<stats, processedChunks>>
      ELSE IF AllLoaded(inv)
      THEN Publish(newInvs, i)
      ELSE /\ invs' = newInvs
           /\ UNCHANGED <<stats, processedChunks, alerts>>

\* processFiles up to its await
ProcessFiles ==
  /\ runs < MaxRuns
  /\ runs' = runs + 1
  /\ UNCHANGED <<inputFiles, selectedFiles>>
  /\ IF selectedFiles = Null
     THEN /\ alerts' = Append(alerts, [run |-> 0, msg |-> NoFilesMsg])
          /\ UNCHANGED <<stats, processedChunks, invs>>
     ELSE AwaitAll(Append(invs, NewInvocation(selectedFiles[1])), Len(invs) + 1)

\* reader.onload of file f of invocation i
OnLoad(i, f) ==
  /\ i \in 1..Len(invs)
  /\ f \in 1..Len(invs[i].reads)
  /\ invs[i].reads[f] = "pending"
  /\ LET inv == invs[i]
         rows == FilterRows(inv.files[f])
         loaded == [inv EXCEPT !.totalRecords = @ + CountRows(rows),
                               !.mergedData = AddRows(@, rows, 2),
                               !.reads[f] = "loaded"]
     IN  AwaitAll([invs EXCEPT ![i] = loaded], i)
  /\ UNCHANGED <<inputFiles, selectedFiles, runs>>

\* reader.onerror of file f of invocation i
OnError(i, f) ==
  /\ i \in 1..Len(invs)
  /\ f \in 1..Len(invs[i].reads)
  /\ invs[i].reads[f] = "pending"
  /\ AwaitAll([invs EXCEPT ![i].reads[f] = "failed"], i)
  /\ UNCHANGED <<inputFiles, selectedFiles, runs>>

Next ==
  \/ \E files \in PickerLists : HandleFileChange(files)
  \/ ProcessFiles
  \/ \E i \in 1..MaxRuns, f \in 1..MaxFiles : OnLoad(i, f)
  \/ \E i \in 1..MaxRuns, f \in 1..MaxFiles : OnError(i, f)

Spec == Init /\ [][Next]_vars

(***************************************************************************)
(* Reading files: every selection of one or two files over ReadAlphabet    *)
(* whose contents have at most MaxTotalLen characters together, processed  *)
(* once, the reads completing in any order.                                *)
(***************************************************************************)
MaxTotalLen == 7

ReadAlphabet == {"0", "5", " ", "\n"}

Texts(alphabet, n) == [1..n -> alphabet]

\* selectedFiles holds a selection, and processFiles has not run yet.
Selected(files) ==
  /\ inputFiles = files
  /\ selectedFiles = Some(files)
  /\ stats = Null
  /\ processedChunks = <<>>
  /\ invs = <<>>
  /\ alerts = <<>>
  /\ runs = 0

InitRead ==
  \E s \in 0..MaxTotalLen :
    \/ \E a \in Texts(ReadAlphabet, s) : Selected(<<a>>)
    \/ \E la \in 0..s :
         \E a \in Texts(ReadAlphabet, la), b \in Texts(ReadAlphabet, s - la) :
           Selected(<<a, b>>)

NextRead ==
  \/ runs = 0 /\ ProcessFiles
  \/ \E f \in 1..2 : OnLoad(1, f)

SpecRead == InitRead /\ [][NextRead]_vars

(***************************************************************************)
(* Normalizing one line: one file, a header and then every line over       *)
(* NormAlphabet of at most MaxLineLen characters.                          *)
(***************************************************************************)
MaxLineLen == 5

NormAlphabet == {"0", "1", "7", "9", " "}

HeaderLine == <<"h", "\n">>

InitNorm ==
  \E n \in 0..MaxLineLen :
    \E line \in Texts(NormAlphabet, n) : Selected(<<HeaderLine \o line>>)

SpecNorm == InitNorm /\ [][NextRead]_vars

(***************************************************************************)
(* Chunking: an invocation of two files whose first file, a header and n   *)
(* distinct rows, has been read, n within MaxDelta of a multiple of        *)
(* chunkSize up to MaxChunks chunks; the read of the second, small, file   *)
(* is pending.                                                             *)
(***************************************************************************)
MaxChunks == 2
MaxDelta == 3

DigitChar(d) == <<"0", "1", "2", "3", "4", "5", "6", "7", "8", "9">>[d + 1]

\* Digit j (1 = leftmost) of the five-digit number 10000 + k.
RowDigit(k, j) ==
  LET n == 10000 + k
  IN  DigitChar(CASE j = 1 -> n \div 10000
                  [] j = 2 -> (n \div 1000) % 10
                  [] j = 3 -> (n \div 100) % 10
                  [] j = 4 -> (n \div 10) % 10
                  [] OTHER -> n % 10)

\* The text "h\n10001\n10002\n...": a header and the rows 10001 .. 10000 + n.
BigFile(n) ==
  [p \in 1..(1 + 6 * n) |->
     IF p = 1 THEN "h"
     ELSE IF (p - 2) % 6 = 0 THEN "\n"
     ELSE RowDigit((p - 2) \div 6 + 1, (p - 2) % 6)]

\* What reading BigFile(n) leaves in mergedData.
BigData(n) == [k \in 1..n |-> Prefix971 \o [j \in 1..5 |-> RowDigit(k, j)]]

SmallFiles ==
  {<<"h">>, <<"h", "\n", "5">>, <<"h", "\n", "1", "0", "0", "0", "1">>}

ChunkLens ==
  {n \in {k * chunkSize + d : k \in 0..MaxChunks, d \in (0 - MaxDelta)..MaxDelta} : n >= 0}

InitChunk ==
  /\ \E n \in ChunkLens, small \in SmallFiles :
       /\ inputFiles = <<BigFile(n), small>>
       /\ selectedFiles = Some(<<BigFile(n), small>>)
       /\ invs = <<[files        |-> <<BigFile(n), small>>,
                    reads        |-> <<"loaded", "pending">>,
                    mergedData   |-> BigData(n),
                    totalRecords |-> n,
                    settled      |-> "pending"]>>
  /\ stats = Null
  /\ processedChunks = <<>>
  /\ alerts = <<>>
  /\ runs = 1

NextChunk == OnLoad(1, 2)

SpecChunk == InitChunk /\ [][NextChunk]_vars

(***************************************************************************)
(* Vocabulary of the properties.                                           *)
(***************************************************************************)
RECURSIVE ConcatFrom(_, _)
ConcatFrom(chunks, k) ==
  IF k > Len(chunks) THEN <<>>
  ELSE chunks[k].data \o ConcatFrom(chunks, k + 1)

\* The records of all the chunks, in chunk order.
ConcatChunks(chunks) == ConcatFrom(chunks, 1)

Range(s) == {s[k] : k \in 1..Len(s)}

\* The lines of a text, each named by the position of its first character:
\* a line starts at 1 and after every newline, and runs to the next newline.
LineStarts(s) == {a \in 1..(Len(s) + 1) : a = 1 \/ s[a - 1] = "\n"}
LineEnd(s, a) ==
  CHOOSE b \in (a - 1)..Len(s) :
    /\ \A k \in a..b : s[k] # "\n"
    /\ b = Len(s) \/ s[b + 1] = "\n"
LineAt(s, a) == SubSeq(s, a, LineEnd(s, a))
Blank(line) == \A k \in 1..Len(line) : line[k] \in WhiteSpace
NonBlankStarts(s) == {a \in LineStarts(s) : ~Blank(LineAt(s, a))}
\* The data lines: the non-blank lines after the first non-blank line.
DataStarts(s) == {a \in NonBlankStarts(s) : \E h \in NonBlankStarts(s) : h < a}
DataRecords(s) == {NormalizeRow(LineAt(s, a)) : a \in DataStarts(s)}

RECURSIVE SumDataLines(_, _)
SumDataLines(files, f) ==
  IF f > Len(files) THEN 0
  ELSE Cardinality(DataStarts(files[f])) + SumDataLines(files, f + 1)

AlertCount(log, i) == Cardinality({k \in 1..Len(log) : log[k].run = i})

Resolved(i) == invs[i].settled = "resolved"

(***************************************************************************)
(* C1: after a successful run the published chunks, concatenated, hold no  *)
(* record twice, and hold exactly the normalized data lines of all the     *)
(* files: a value duplicated within a file or across files appears once.   *)
(***************************************************************************)
C1_MergedSet ==
  \A i \in 1..Len(invs) :
    Resolved(i) =>
      LET corpus == ConcatChunks(processedChunks)
          files == invs[i].files
      IN  /\ Injective(corpus)
          /\ Range(corpus) = UNION {DataRecords(files[f]) : f \in 1..Len(files)}

\* Two files with a data record in common have been merged.
C1_Witness ==
  /\ Len(invs) = 1
  /\ Resolved(1)
  /\ Len(invs[1].files) = 2
  /\ DataRecords(invs[1].files[1]) \cap DataRecords(invs[1].files[2]) # {}
  /\ Len(ConcatChunks(processedChunks)) = 1

(***************************************************************************)
(* C5: after a successful run stats.totalRecords is the number of data     *)
(* lines of all the files, a file without data lines (header only, or no   *)
(* non-blank line at all) counting 0.                                      *)
(***************************************************************************)
C5_TotalRecords ==
  \A i \in 1..Len(invs) :
    Resolved(i) =>
      /\ stats # Null
      /\ stats[1].totalRecords = SumDataLines(invs[i].files, 1)

(***************************************************************************)
(* C6: whenever stats are published, the number of unique records is at    *)
(* most stats.totalRecords, and duplicatesRemoved is their difference and  *)
(* is not negative.                                                        *)
(***************************************************************************)
C6_DuplicatesNonNegative ==
  stats # Null =>
    LET uniqueCount == Len(ConcatChunks(processedChunks))
    IN  /\ uniqueCount <= stats[1].totalRecords
        /\ stats[1].duplicatesRemoved = stats[1].totalRecords - uniqueCount
        /\ stats[1].duplicatesRemoved >= 0

(***************************************************************************)
(* C2: the Record of a data line is "971" followed by the trimmed line     *)
(* with exactly one leading '0' removed if it starts with '0' (a second    *)
(* zero stays, any other line stays whole); a value that already starts    *)
(* with "971" is prefixed again, so the rule is not idempotent.            *)
(***************************************************************************)
StartsWith971(t) == Len(t) >= 3 /\ SubSeq(t, 1, 3) = <<"9", "7", "1">>

\* The one data line of a file made of HeaderLine and a line.
DataLine(file) == SubSeq(file, Len(HeaderLine) + 1, Len(file))

C2_Normalize ==
  \A i \in 1..Len(invs) :
    invs[i].reads[1] = "loaded" =>
      LET line == DataLine(invs[i].files[1])
          merged == invs[i].mergedData
      IN  IF Blank(line) THEN merged = <<>>
          ELSE \E a, b \in 1..Len(line) :
                 /\ a <= b
                 /\ line[a] \notin WhiteSpace /\ line[b] \notin WhiteSpace
                 /\ \A k \in 1..(a - 1) : line[k] \in WhiteSpace
                 /\ \A k \in (b + 1)..Len(line) : line[k] \in WhiteSpace
                 /\ LET t == SubSeq(line, a, b)
                    IN  /\ Len(merged) = 1
                        /\ merged[1] = IF t[1] = "0"
                                       THEN <<"9", "7", "1">> \o Tail(t)
                                       ELSE <<"9", "7", "1">> \o t
                        /\ StartsWith971(t) =>
                             merged[1] # t /\ merged[1] = <<"9", "7", "1">> \o t

\* An already-normalized value, "9710", has been normalized again.
C2_Witness ==
  /\ Len(invs) = 1
  /\ invs[1].reads[1] = "loaded"
  /\ StartsWith971(DataLine(invs[1].files[1]))
  /\ invs[1].mergedData = << <<"9", "7", "1", "9", "7", "1", "0">> >>

(***************************************************************************)
(* C3: the published chunks are contiguous slices of the unique-record     *)
(* sequence whose concatenation is the sequence; every chunk but the last  *)
(* has exactly 9000 records and the last has 1 to 9000, so no chunk is     *)
(* empty (and the empty sequence gives no chunk).                          *)
(***************************************************************************)
C3_Chunks ==
  \A i \in 1..Len(invs) :
    Resolved(i) =>
      LET uniqueData == invs[i].mergedData
          n == Len(processedChunks)
      IN  /\ ConcatChunks(processedChunks) = uniqueData
          /\ \A k \in 1..n :
               /\ Len(processedChunks[k].data) >= 1
               /\ Len(processedChunks[k].data) <= 9000
               /\ k < n => Len(processedChunks[k].data) = 9000
               /\ processedChunks[k].data =
                    SubSeq(uniqueData, 9000 * (k - 1) + 1,
                           9000 * (k - 1) + Len(processedChunks[k].data))
          /\ uniqueData = <<>> => n = 0

\* A full chunk and a last chunk of one record.
C3_Witness ==
  /\ Len(invs) = 1
  /\ Resolved(1)
  /\ Len(invs[1].mergedData) = 9001
  /\ Len(processedChunks) = 2
  /\ Len(processedChunks[1].data) = 9000
  /\ Len(processedChunks[2].data) = 1

(***************************************************************************)
(* C4: the published corpus is in file order as supplied, then line order  *)
(* within each file, whatever the order in which the reads complete.       *)
(***************************************************************************)
RECURSIVE InFileOrder(_, _, _)
InFileOrder(files, f, merged) ==
  IF f > Len(files) THEN merged
  ELSE InFileOrder(files, f + 1, AddRows(merged, FilterRows(files[f]), 2))

C4_FileOrder ==
  \A i \in 1..Len(invs) :
    Resolved(i) => invs[i].mergedData = InFileOrder(invs[i].files, 1, <<>>)

(***************************************************************************)
(* C7: an invocation with a failed read raises exactly one alert, however  *)
(* many of its reads fail, are pending or load later, and publishes        *)
(* nothing: no step of it changes stats or processedChunks.                *)
(***************************************************************************)
\* Invocation i took this step: it was started, or one of its reads settled.
StepOf(i) == i > Len(invs) \/ invs'[i] # invs[i]

C7_FailedRead ==
  [][\A i \in 1..Len(invs') :
       HasFailed(invs'[i]) =>
         /\ AlertCount(alerts', i) = 1
         /\ invs'[i].settled = "rejected"
         /\ StepOf(i) => stats' = stats /\ processedChunks' = processedChunks]_vars

\* Results of an earlier run are displayed, and an invocation of two files
\* has had a read fail and its other read settle too.
C7_Witness ==
  /\ stats # Null
  /\ processedChunks # <<>>
  /\ \E i \in 1..Len(invs) :
       /\ Len(invs[i].reads) = 2
       /\ HasFailed(invs[i])
       /\ ~HasPending(invs[i])
       /\ AlertCount(alerts, i) = 1

(***************************************************************************)
(* C8: processFiles with no files selected raises the alert and does       *)
(* nothing else: no read is started, stats and processedChunks stay; no    *)
(* stats with totalFiles = 0 are published.                                *)
(***************************************************************************)
\* This step is processFiles raising the no-files alert and nothing else.
AlertsOnly ==
  /\ alerts' = Append(alerts, [run |-> 0, msg |-> NoFilesMsg])
  /\ UNCHANGED <<selectedFiles, stats, processedChunks, invs>>

\* C8 as claimed: no files selected is no selection yet, or the picker having
\* supplied an empty list.
C8_Original ==
  [][/\ stats' # Null => stats'[1].totalFiles > 0
     /\ (runs' # runs /\ (selectedFiles = Null \/ inputFiles = <<>>))
          => AlertsOnly]_vars

\* C8 as amended: no files selected is selectedFiles = null; an empty list from
\* the picker is ignored and leaves the selection as it was, so the selection
\* is never an empty list.
C8_Amended ==
  [][/\ stats' # Null => stats'[1].totalFiles > 0
     /\ selectedFiles' # Null => Len(selectedFiles'[1]) > 0
     /\ inputFiles' = <<>> => selectedFiles' = selectedFiles
     /\ (runs' # runs /\ selectedFiles = Null) => AlertsOnly]_vars

\* processFiles has run twice with nothing selected.
C8_Witness ==
  /\ selectedFiles = Null
  /\ inputFiles = <<>>
  /\ Len(alerts) = 2
  /\ \A k \in 1..Len(alerts) : alerts[k].msg = NoFilesMsg
  /\ invs = <<>>
  /\ stats = Null

(***************************************************************************)
(* C9: once the newest selection has been processed successfully and no    *)
(* invocation is in flight, the displayed stats and chunks are those of    *)
(* the newest invocation alone.                                            *)
(***************************************************************************)
StatsOf(inv) ==
  [totalFiles        |-> Len(inv.files),
   totalRecords      |-> inv.totalRecords,
   duplicatesRemoved |-> inv.totalRecords - Len(inv.mergedData)]

C9_NewestWins ==
  (/\ Len(invs) >= 1
   /\ \A i \in 1..Len(invs) : invs[i].settled # "pending"
   /\ Resolved(Len(invs)))
  => /\ stats = Some(StatsOf(invs[Len(invs)]))
     /\ ConcatChunks(processedChunks) = invs[Len(invs)].mergedData

(***************************************************************************)
(* C10: an invocation publishes only when every one of its reads has       *)
(* loaded, and then at once; while one of its reads is pending it          *)
(* publishes nothing and raises no alert.                                  *)
(***************************************************************************)
Published(i) ==
  /\ stats' = Some(StatsOf(invs'[i]))
  /\ ConcatChunks(processedChunks') = invs'[i].mergedData

\* C10 as claimed: an invocation raises no alert while one of its reads is
\* pending.
C10_Original ==
  [][/\ \A i \in 1..Len(invs') :
          /\ (StepOf(i) /\ HasPending(invs'[i])) =>
               /\ UNCHANGED <<stats, processedChunks>>
               /\ AlertCount(alerts', i) = 0
          /\ (StepOf(i) /\ AllLoaded(invs'[i])) => Published(i)
     /\ <<stats, processedChunks>>' # <<stats, processedChunks>> =>
          \E i \in 1..Len(invs') : StepOf(i) /\ AllLoaded(invs'[i])]_vars

\* C10 as amended: an invocation raises no alert while one of its reads is
\* pending and none of its reads has failed.
C10_Amended ==
  [][/\ \A i \in 1..Len(invs') :
          /\ (StepOf(i) /\ HasPending(invs'[i])) =>
               /\ UNCHANGED <<stats, processedChunks>>
               /\ ~HasFailed(invs'[i]) => AlertCount(alerts', i) = 0
          /\ (StepOf(i) /\ AllLoaded(invs'[i])) => Published(i)
     /\ <<stats, processedChunks>>' # <<stats, processedChunks>> =>
          \E i \in 1..Len(invs') : StepOf(i) /\ AllLoaded(invs'[i])]_vars

\* An invocation of two files waits on a stalled read: one read has loaded,
\* nothing of it is published and no alert is raised.
C10_Witness ==
  /\ Len(invs) = 1
  /\ invs[1].reads = <<"loaded", "pending">>
  /\ invs[1].settled = "pending"
  /\ stats = Null
  /\ alerts = <<>>

====
